---- MODULE Spec2Model ----
(***************************************************************************)
(* Model of the user-management API: the registration / login / refresh / *)
(* logout handlers, the profile and admin handlers, the authentication    *)
(* and role middleware, the request validators and the token helpers.     *)
(*                                                                         *)
(* Strings whose characters the code inspects (emails, passwords) are      *)
(* sequences of one-character strings; an absent or empty field is << >>   *)
(* (or "" for the opaque field role): both are falsy in the      *)
(* code's `!x` tests.  Time is counted in ticks of the JWT clock           *)
(* (iat / exp are whole seconds in the code).                              *)
(***************************************************************************)
EXTENDS Integers, Sequences, FiniteSets, TLC

(* ------------------------------- bounds -------------------------------- *)
MaxUsers == 2       \* users the store may hold
MaxTime == 2        \* last tick of the clock
MaxTokens == 2      \* sessions a user may open

(* ------------------------ configuration values ------------------------- *)
AccessTTL == 1      \* JWT_EXPIRES_IN, in ticks
RefreshTTL == 2     \* JWT_REFRESH_EXPIRES_IN, in ticks
MinPasswordLen == 8

(* ----------------------------- characters ------------------------------ *)
LowerChars == {"a", "b", "e", "n", "p", "s", "t", "w", "x"}
UpperChars == {"A", "B", "N", "P", "T"}
DigitChars == {"1", "2", "3"}
SpecialChars == {"@", "$", "!", "%", "*", "?", "&", "#"}

\* String.prototype.toLowerCase on one character
ToLower(c) ==
  CASE c = "A" -> "a"
    [] c = "B" -> "b"
    [] c = "N" -> "n"
    [] c = "P" -> "p"
    [] c = "T" -> "t"
    [] OTHER -> c

Absent == << >>

\* validator's isEmail, on the shapes used here: one "@" with text on both sides
isEmail(e) ==
  /\ Len(e) >= 3
  /\ Cardinality({i \in 1..Len(e) : e[i] = "@"}) = 1
  /\ e[1] # "@"
  /\ e[Len(e)] # "@"

\* a mutant of normalizeEmail: the address is kept as typed
normalizeEmailKeepCase(e) == e

\* validator's normalizeEmail (all_lowercase): the address in lower case
normalizeEmail(e) == [i \in 1..Len(e) |-> ToLower(e[i])]

HasChar(p, S) == \E i \in 1..Len(p) : p[i] \in S

\* the password chain of validateRegistration: the messages of the rules
\* that fail, in the order of the chain
RegistrationPasswordErrors(p) ==
  (IF Len(p) >= MinPasswordLen THEN << >>
   ELSE <<"Password must be at least 8 characters">>)
  \o (IF HasChar(p, LowerChars) THEN << >>
      ELSE <<"Password must contain lowercase letter">>)
  \o (IF HasChar(p, UpperChars) THEN << >>
      ELSE <<"Password must contain uppercase letter">>)
  \o (IF HasChar(p, DigitChars) THEN << >>
      ELSE <<"Password must contain number">>)
  \o (IF HasChar(p, SpecialChars) THEN << >>
      ELSE <<"Password must contain special character">>)

\* isValidPassword: validator.isStrongPassword with minLength 8, minLowercase 1,
\* minUppercase 1, minNumbers 1 and the library's default minSymbols 1
isValidPassword(p) ==
  /\ p # Absent
  /\ Len(p) >= MinPasswordLen
  /\ HasChar(p, LowerChars)
  /\ HasChar(p, UpperChars)
  /\ HasChar(p, DigitChars)
  /\ HasChar(p, SpecialChars)

(* ------------------------------ passwords ------------------------------ *)
Salts == {"s1"}

\* bcrypt reads the first 72 bytes of the plaintext and ignores the rest
BcryptMaxBytes == 72

Take(p, n) == IF Len(p) <= n THEN p ELSE SubSeq(p, 1, n)

\* bcrypt.hash with a given salt: a one-way digest that embeds its salt
bcryptHash(p, salt) ==
  [alg |-> "bcrypt", salt |-> salt, of |-> Take(p, BcryptMaxBytes)]

\* bcrypt.compare: re-hash the plaintext with the digest's own salt
comparePassword(p, digest) == bcryptHash(p, digest.salt) = digest

(* -------------------------------- tokens ------------------------------- *)
\* A JWT is its payload and the secret that signed it.  A refresh token's
\* payload has no email and no role.
NoToken == [secret |-> "absent", id |-> 0, email |-> Absent, role |-> "",
            iat |-> 0, exp |-> 0]
Garbage == [secret |-> "malformed", id |-> 0, email |-> Absent, role |-> "",
            iat |-> 0, exp |-> 0]

jwtSign(payload, secret, ttl, t) ==
  [secret |-> secret, id |-> payload.id, email |-> payload.email,
   role |-> payload.role, iat |-> t, exp |-> t + ttl]

\* jwt.verify: the signature must be the secret's and the clock before exp
jwtVerifies(token, secret, t) == token.secret = secret /\ t < token.exp

\* a mutant of generateToken: the access token takes the role "User"
generateTokenRoleUser(user, t) ==
  jwtSign([id |-> user.id, email |-> user.email, role |-> "User"],
          "JWT_SECRET", AccessTTL, t)

generateToken(user, t) ==
  jwtSign([id |-> user.id, email |-> user.email, role |-> user.role],
          "JWT_SECRET", AccessTTL, t)

\* a mutant of generateRefreshToken: signed with the access secret
generateRefreshTokenAccessSecret(user, t) ==
  jwtSign([id |-> user.id, email |-> Absent, role |-> ""],
          "JWT_SECRET", RefreshTTL, t)

generateRefreshToken(user, t) ==
  jwtSign([id |-> user.id, email |-> Absent, role |-> ""],
          "JWT_REFRESH_SECRET", RefreshTTL, t)

\* a mutant of verifyToken: the expiry is not checked
verifyTokenNoExpiry(token, t) == token.secret = "JWT_SECRET"

\* verifyToken / verifyRefreshToken throw when jwt.verify throws
verifyTokenOk(token, t) == jwtVerifies(token, "JWT_SECRET", t)

\* a mutant of verifyRefreshToken: the expiry is not checked
verifyRefreshTokenNoExpiry(token, t) == token.secret = "JWT_REFRESH_SECRET"

verifyRefreshTokenOk(token, t) == jwtVerifies(token, "JWT_REFRESH_SECRET", t)

generateTokenPair(user, t) ==
  [accessToken |-> generateToken(user, t),
   refreshToken |-> generateRefreshToken(user, t)]

(* ------------------------ refresh-token registry ----------------------- *)
\* a mutant of addRefreshToken: the token is not kept
addRefreshTokenDropped(user, token) == user

addRefreshToken(user, token) ==
  [user EXCEPT !.refreshTokens = Append(@, token)]

\* a mutant of removeRefreshToken: only the first occurrence is removed
removeRefreshTokenFirstOnly(user, token) ==
  LET first == CHOOSE k \in 1..Len(user.refreshTokens) :
                 /\ user.refreshTokens[k] = token
                 /\ \A j \in 1..(k - 1) : user.refreshTokens[j] # token
  IN IF \A k \in 1..Len(user.refreshTokens) : user.refreshTokens[k] # token
     THEN user
     ELSE [user EXCEPT !.refreshTokens =
             SubSeq(@, 1, first - 1) \o SubSeq(@, first + 1, Len(@))]

\* a mutant of removeRefreshToken: nothing is removed
removeRefreshTokenNoop(user, token) == user

removeRefreshToken(user, token) ==
  [user EXCEPT !.refreshTokens = SelectSeq(@, LAMBDA x : x # token)]

hasValidRefreshToken(user, token) ==
  \E i \in 1..Len(user.refreshTokens) : user.refreshTokens[i] = token

(* ------------------------------ sanitizing ----------------------------- *)
Restrict(f, keys) == [k \in keys |-> f[k]]

\* a mutant of sanitizeUser: only the password is dropped
sanitizeUserPasswordOnly(user) == Restrict(user, DOMAIN user \ {"password"})

sanitizeUser(user) ==
  Restrict(user, DOMAIN user \ {"password", "refreshTokens"})

(* ------------------------------ responses ------------------------------ *)
\* `data: null`, and the body of a response that carries no data
Null == [null |-> TRUE]

sendErrorResponse(message, status) ==
  [status |-> status, message |-> message, data |-> Null]

sendSuccessResponse(data, message, status) ==
  [status |-> status, message |-> message, data |-> data]

\* handleValidationErrors: res.status(400).json({ errors })
validationFailed(errors) ==
  [status |-> 400, message |-> "", data |-> [errors |-> errors]]

\* the error-handling middleware of the application
serverError == [status |-> 500, message |-> "Something went wrong!", data |-> Null]

(* ------------------------------ user store ----------------------------- *)
\* User.findOne({ email }): index of the first match, 0 if none
FindByEmail(us, email) ==
  IF \E i \in 1..Len(us) : us[i].email = email
  THEN CHOOSE i \in 1..Len(us) :
         us[i].email = email /\ \A j \in 1..(i - 1) : us[j].email # email
  ELSE 0

\* User.findById(id)
FindById(us, id) ==
  IF \E i \in 1..Len(us) : us[i].id = id
  THEN CHOOSE i \in 1..Len(us) :
         us[i].id = id /\ \A j \in 1..(i - 1) : us[j].id # id
  ELSE 0

\* the _id of a new document: an id no stored user has
NewId(us) == Len(us) + 1

(* ------------------------------ validators ----------------------------- *)
\* validateRegistration: the email and password chains, then the email
\* replaced by its normal form
validateRegistrationErrors(body) ==
  (IF isEmail(body.email) THEN << >> ELSE <<"Invalid email format">>)
  \o RegistrationPasswordErrors(body.password)

\* validateLogin
validateLoginErrors(body) ==
  (IF isEmail(body.email) THEN << >> ELSE <<"Invalid email format">>)
  \o (IF body.password # Absent THEN << >> ELSE <<"Password is required">>)

\* validateRefreshToken
validateRefreshTokenErrors(body) ==
  IF body.refreshToken # NoToken THEN << >>
  ELSE <<"Refresh token is required">>

\* the sanitizers of a chain: body("email").normalizeEmail()
sanitizeBody(body) == [body EXCEPT !.email = normalizeEmail(@)]

(* ------------------------------- register ------------------------------ *)
\* a mutant of createUserCheck: the required fields are not checked
createUserCheckNoRequired(us, body) ==
  IF FindByEmail(us, body.email) # 0
  THEN sendErrorResponse("Email already exists", 409)
  ELSE [status |-> 0, message |-> "pass", data |-> Null]

\* createUser up to `await hashPassword`: the required fields and the
\* existence check.  "pass" means the handler goes on.
createUserCheck(us, body) ==
  IF body.name = Absent \/ body.email = Absent \/ body.password = Absent
  THEN sendErrorResponse("Name, email, and password are required", 400)
  ELSE IF FindByEmail(us, body.email) # 0
  THEN sendErrorResponse("Email already exists", 409)
  ELSE [status |-> 0, message |-> "pass", data |-> Null]

\* a mutant of createUserInsert: a new user is always given the role "User"
createUserInsertAsUser(us, body, t, salt) ==
  IF ~isValidPassword(body.password)
  THEN [users |-> us, resp |-> serverError]
  ELSE
    LET fresh == [id |-> NewId(us),
                  name |-> body.name,
                  email |-> body.email,
                  password |-> bcryptHash(body.password, salt),
                  role |-> "User",
                  refreshTokens |-> << >>]
        pair == generateTokenPair(fresh, t)
        newUser == addRefreshToken(fresh, pair.refreshToken)
        userWithoutPassword == Restrict(newUser, DOMAIN newUser \ {"password"})
    IN [users |-> Append(us, newUser),
        resp |-> sendSuccessResponse(
                   [user |-> sanitizeUser(userWithoutPassword),
                    accessToken |-> pair.accessToken,
                    refreshToken |-> pair.refreshToken],
                   "User created successfully", 201)]

\* createUser from `await hashPassword` on, against the store as it is then;
\* hashPassword throws on a password isValidPassword refuses, and the
\* application's error middleware answers
createUserInsert(us, body, t, salt) ==
  IF ~isValidPassword(body.password)
  THEN [users |-> us, resp |-> serverError]
  ELSE
    LET fresh == [id |-> NewId(us),
                  name |-> body.name,
                  email |-> body.email,
                  password |-> bcryptHash(body.password, salt),
                  role |-> IF body.role = "" THEN "User" ELSE body.role,
                  refreshTokens |-> << >>]
        pair == generateTokenPair(fresh, t)
        newUser == addRefreshToken(fresh, pair.refreshToken)
        userWithoutPassword == Restrict(newUser, DOMAIN newUser \ {"password"})
    IN [users |-> Append(us, newUser),
        resp |-> sendSuccessResponse(
                   [user |-> sanitizeUser(userWithoutPassword),
                    accessToken |-> pair.accessToken,
                    refreshToken |-> pair.refreshToken],
                   "User created successfully", 201)]

createUser(us, body, t, salt) ==
  LET check == createUserCheck(us, body)
  IN IF check.status # 0 THEN [users |-> us, resp |-> check]
     ELSE createUserInsert(us, body, t, salt)

\* POST /register: validateRegistration, createUser
RegisterRoute(us, body, t, salt) ==
  LET errors == validateRegistrationErrors(body)
  IN IF errors # << >> THEN [users |-> us, resp |-> validationFailed(errors)]
     ELSE createUser(us, sanitizeBody(body), t, salt)

(* -------------------------------- login -------------------------------- *)
\* a mutant of loginUser: an unknown email is answered 404
loginUserTellsUnknown(us, body, t) ==
  LET i == FindByEmail(us, body.email)
  IN IF i = 0
     THEN [users |-> us, resp |-> sendErrorResponse("User not found", 404)]
     ELSE IF ~comparePassword(body.password, us[i].password)
     THEN [users |-> us,
           resp |-> sendErrorResponse("Invalid email or password", 401)]
     ELSE LET pair == generateTokenPair(us[i], t)
          IN [users |-> [us EXCEPT ![i] = addRefreshToken(@, pair.refreshToken)],
              resp |-> sendSuccessResponse(pair, "Login successful", 200)]

\* a mutant of loginUser: a wrong password closes the user's sessions
loginUserLocksOut(us, body, t) ==
  LET i == FindByEmail(us, body.email)
  IN IF i = 0
     THEN [users |-> us,
           resp |-> sendErrorResponse("Invalid email or password", 401)]
     ELSE IF ~comparePassword(body.password, us[i].password)
     THEN [users |-> [us EXCEPT ![i].refreshTokens = << >>],
           resp |-> sendErrorResponse("Invalid email or password", 401)]
     ELSE LET pair == generateTokenPair(us[i], t)
          IN [users |-> [us EXCEPT ![i] = addRefreshToken(@, pair.refreshToken)],
              resp |-> sendSuccessResponse(pair, "Login successful", 200)]

\* a mutant of loginUser: the new session replaces the earlier ones
loginUserSingleSession(us, body, t) ==
  LET i == FindByEmail(us, body.email)
  IN IF i = 0
     THEN [users |-> us,
           resp |-> sendErrorResponse("Invalid email or password", 401)]
     ELSE IF ~comparePassword(body.password, us[i].password)
     THEN [users |-> us,
           resp |-> sendErrorResponse("Invalid email or password", 401)]
     ELSE LET pair == generateTokenPair(us[i], t)
          IN [users |-> [us EXCEPT ![i].refreshTokens = <<pair.refreshToken>>],
              resp |-> sendSuccessResponse(pair, "Login successful", 200)]

\* a mutant of loginUser: expired refresh tokens are dropped at login
loginUserDropsExpired(us, body, t) ==
  LET i == FindByEmail(us, body.email)
  IN IF i = 0
     THEN [users |-> us,
           resp |-> sendErrorResponse("Invalid email or password", 401)]
     ELSE IF ~comparePassword(body.password, us[i].password)
     THEN [users |-> us,
           resp |-> sendErrorResponse("Invalid email or password", 401)]
     ELSE LET pair == generateTokenPair(us[i], t)
          IN [users |-> [us EXCEPT ![i].refreshTokens =
                           Append(SelectSeq(@, LAMBDA x : t < x.exp),
                                  pair.refreshToken)],
              resp |-> sendSuccessResponse(pair, "Login successful", 200)]

loginUser(us, body, t) ==
  LET i == FindByEmail(us, body.email)
  IN IF i = 0
     THEN [users |-> us,
           resp |-> sendErrorResponse("Invalid email or password", 401)]
     ELSE IF ~comparePassword(body.password, us[i].password)
     THEN [users |-> us,
           resp |-> sendErrorResponse("Invalid email or password", 401)]
     ELSE LET pair == generateTokenPair(us[i], t)
          IN [users |-> [us EXCEPT ![i] = addRefreshToken(@, pair.refreshToken)],
              resp |-> sendSuccessResponse(pair, "Login successful", 200)]

\* POST /login: validateLogin, loginUser
LoginRoute(us, body, t) ==
  LET errors == validateLoginErrors(body)
  IN IF errors # << >> THEN [users |-> us, resp |-> validationFailed(errors)]
     ELSE loginUser(us, sanitizeBody(body), t)

(* ------------------------- authorization gate -------------------------- *)
\* an Authorization header is the sequence of its words, << >> when the
\* request has none: authHeader && authHeader.split(" ")[1]
HeaderToken(header) == IF Len(header) >= 2 THEN header[2] ELSE NoToken

Claims(token) ==
  [id |-> token.id, email |-> token.email, role |-> token.role,
   iat |-> token.iat, exp |-> token.exp]

NoClaims == Claims(NoToken)

\* a mutant of authenticateToken: every failure is answered 401
authenticateTokenAll401(header, t) ==
  LET token == HeaderToken(header)
  IN IF token = NoToken
     THEN [ok |-> FALSE, user |-> NoClaims,
           resp |-> sendErrorResponse("No token provided", 401)]
     ELSE IF verifyTokenOk(token, t)
     THEN [ok |-> TRUE, user |-> Claims(token), resp |-> Null]
     ELSE [ok |-> FALSE, user |-> NoClaims,
           resp |-> sendErrorResponse("Invalid token", 401)]

\* a mutant of authenticateToken: an expired token is told apart
authenticateTokenTellsExpiry(header, t) ==
  LET token == HeaderToken(header)
  IN IF token = NoToken
     THEN [ok |-> FALSE, user |-> NoClaims,
           resp |-> sendErrorResponse("No token provided", 401)]
     ELSE IF verifyTokenOk(token, t)
     THEN [ok |-> TRUE, user |-> Claims(token), resp |-> Null]
     ELSE IF token.secret = "JWT_SECRET"
     THEN [ok |-> FALSE, user |-> NoClaims,
           resp |-> sendErrorResponse("Token expired", 401)]
     ELSE [ok |-> FALSE, user |-> NoClaims,
           resp |-> sendErrorResponse("Invalid token", 403)]

authenticateToken(header, t) ==
  LET token == HeaderToken(header)
  IN IF token = NoToken
     THEN [ok |-> FALSE, user |-> NoClaims,
           resp |-> sendErrorResponse("No token provided", 401)]
     ELSE IF verifyTokenOk(token, t)
     THEN [ok |-> TRUE, user |-> Claims(token), resp |-> Null]
     ELSE [ok |-> FALSE, user |-> NoClaims,
           resp |-> sendErrorResponse("Invalid token", 403)]

\* a mutant of authorizeRole: Admin stands above every other role
authorizeRoleAdminAbove(roles, user) ==
  user # NoClaims /\ (user.role \in roles \/ user.role = "Admin")

\* authorizeRole(...roles): req.user is set and its role is one of roles
authorizeRole(roles, user) == user # NoClaims /\ user.role \in roles

accessDenied == sendErrorResponse("Access denied: insufficient permissions", 403)

(* -------------------------- logout and refresh ------------------------- *)
\* a mutant of logoutUser: a token that fails verification is swept out of
\* the collection that holds it
logoutUserPrunes(us, body, t) ==
  IF body.refreshToken = NoToken
  THEN [users |-> us, resp |-> sendErrorResponse("Refresh token is required", 400)]
  ELSE IF ~verifyRefreshTokenOk(body.refreshToken, t)
  THEN [users |-> [i \in 1..Len(us) |-> removeRefreshToken(us[i], body.refreshToken)],
        resp |-> sendErrorResponse("Invalid refresh token", 401)]
  ELSE LET i == FindById(us, body.refreshToken.id)
       IN IF i = 0 \/ ~hasValidRefreshToken(us[i], body.refreshToken)
          THEN [users |-> us,
                resp |-> sendErrorResponse("Invalid refresh token", 401)]
          ELSE [users |-> [us EXCEPT ![i] = removeRefreshToken(@, body.refreshToken)],
                resp |-> sendSuccessResponse(Null, "Logout successful", 200)]

\* a mutant of logoutUser: success is answered without touching the registry
logoutUserKeepsToken(us, body, t) ==
  IF body.refreshToken = NoToken
  THEN [users |-> us, resp |-> sendErrorResponse("Refresh token is required", 400)]
  ELSE IF ~verifyRefreshTokenOk(body.refreshToken, t)
  THEN [users |-> us, resp |-> sendErrorResponse("Invalid refresh token", 401)]
  ELSE LET i == FindById(us, body.refreshToken.id)
       IN IF i = 0 \/ ~hasValidRefreshToken(us[i], body.refreshToken)
          THEN [users |-> us,
                resp |-> sendErrorResponse("Invalid refresh token", 401)]
          ELSE [users |-> us,
                resp |-> sendSuccessResponse(Null, "Logout successful", 200)]

logoutUser(us, body, t) ==
  IF body.refreshToken = NoToken
  THEN [users |-> us, resp |-> sendErrorResponse("Refresh token is required", 400)]
  ELSE IF ~verifyRefreshTokenOk(body.refreshToken, t)
  THEN [users |-> us, resp |-> sendErrorResponse("Invalid refresh token", 401)]
  ELSE LET i == FindById(us, body.refreshToken.id)
       IN IF i = 0 \/ ~hasValidRefreshToken(us[i], body.refreshToken)
          THEN [users |-> us,
                resp |-> sendErrorResponse("Invalid refresh token", 401)]
          ELSE [users |-> [us EXCEPT ![i] = removeRefreshToken(@, body.refreshToken)],
                resp |-> sendSuccessResponse(Null, "Logout successful", 200)]

\* a mutant of LogoutRoute: only the owner of a refresh token logs it out
LogoutRouteOwnerOnly(us, header, body, t) ==
  LET auth == authenticateToken(header, t)
  IN IF ~auth.ok THEN [users |-> us, resp |-> auth.resp]
     ELSE IF body.refreshToken # NoToken /\ body.refreshToken.id # auth.user.id
     THEN [users |-> us, resp |-> accessDenied]
     ELSE logoutUser(us, body, t)

\* a mutant of LogoutRoute: the handler runs whatever the gate said
LogoutRouteUngated(us, header, body, t) == logoutUser(us, body, t)

\* POST /logout: authenticateToken, logoutUser
LogoutRoute(us, header, body, t) ==
  LET auth == authenticateToken(header, t)
  IN IF ~auth.ok THEN [users |-> us, resp |-> auth.resp]
     ELSE logoutUser(us, body, t)

\* a mutant of refreshAccessToken: the whole pair is returned
refreshAccessTokenReturnsPair(us, body, t) ==
  IF body.refreshToken = NoToken
  THEN sendErrorResponse("Refresh token is required", 400)
  ELSE IF ~verifyRefreshTokenOk(body.refreshToken, t)
  THEN sendErrorResponse("Invalid or expired refresh token", 401)
  ELSE LET i == FindById(us, body.refreshToken.id)
       IN IF i = 0 \/ ~hasValidRefreshToken(us[i], body.refreshToken)
          THEN sendErrorResponse("Invalid refresh token", 401)
          ELSE sendSuccessResponse(
                 [email |-> us[i].email,
                  accessToken |-> generateTokenPair(us[i], t).accessToken,
                  refreshToken |-> generateTokenPair(us[i], t).refreshToken],
                 "Token refreshed successfully", 200)

\* a mutant of refreshAccessToken: registry membership is not checked
refreshAccessTokenNoRegistry(us, body, t) ==
  IF body.refreshToken = NoToken
  THEN sendErrorResponse("Refresh token is required", 400)
  ELSE IF ~verifyRefreshTokenOk(body.refreshToken, t)
  THEN sendErrorResponse("Invalid or expired refresh token", 401)
  ELSE LET i == FindById(us, body.refreshToken.id)
       IN IF i = 0
          THEN sendErrorResponse("Invalid refresh token", 401)
          ELSE sendSuccessResponse(
                 [email |-> us[i].email,
                  accessToken |-> generateTokenPair(us[i], t).accessToken],
                 "Token refreshed successfully", 200)

refreshAccessToken(us, body, t) ==
  IF body.refreshToken = NoToken
  THEN sendErrorResponse("Refresh token is required", 400)
  ELSE IF ~verifyRefreshTokenOk(body.refreshToken, t)
  THEN sendErrorResponse("Invalid or expired refresh token", 401)
  ELSE LET i == FindById(us, body.refreshToken.id)
       IN IF i = 0 \/ ~hasValidRefreshToken(us[i], body.refreshToken)
          THEN sendErrorResponse("Invalid refresh token", 401)
          ELSE sendSuccessResponse(
                 [email |-> us[i].email,
                  accessToken |-> generateTokenPair(us[i], t).accessToken],
                 "Token refreshed successfully", 200)

\* POST /refresh: validateRefreshToken, refreshAccessToken
RefreshRoute(us, body, t) ==
  LET errors == validateRefreshTokenErrors(body)
  IN IF errors # << >> THEN validationFailed(errors)
     ELSE refreshAccessToken(us, body, t)

(* ------------------------------- profile ------------------------------- *)
getCurrentUserProfile(us, claims) ==
  LET i == FindById(us, claims.id)
  IN IF i = 0 THEN sendErrorResponse("User not found", 404)
     ELSE sendSuccessResponse(sanitizeUser(us[i]),
                              "Profile retrieved successfully", 200)

\* GET /profile: authenticateToken, getCurrentUserProfile
GetProfileRoute(us, header, t) ==
  LET auth == authenticateToken(header, t)
  IN IF ~auth.ok THEN auth.resp ELSE getCurrentUserProfile(us, auth.user)

LetterChars == LowerChars \cup UpperChars

\* validateProfileUpdate: each field is checked only when it is sent
validateProfileUpdateErrors(body) ==
  (IF body.name = Absent THEN << >>
   ELSE (IF Len(body.name) >= 2 /\ Len(body.name) <= 50 THEN << >>
         ELSE <<"Name must be between 2 and 50 characters">>)
        \o (IF \A k \in 1..Len(body.name) : body.name[k] \in LetterChars \cup {" "}
            THEN << >>
            ELSE <<"Name can only contain letters and spaces">>))
  \o (IF body.email = Absent \/ isEmail(body.email) THEN << >>
      ELSE <<"Invalid email format">>)

\* a mutant of updateCurrentUserProfile: a change of profile closes the
\* user's sessions
updateCurrentUserProfileClosesSessions(us, claims, body) ==
  LET i == FindById(us, claims.id)
  IN IF i = 0
     THEN [users |-> us, resp |-> sendErrorResponse("User not found", 404)]
     ELSE IF /\ body.email # Absent
             /\ body.email # us[i].email
             /\ \E j \in 1..Len(us) :
                  us[j].email = body.email /\ us[j].id # claims.id
     THEN [users |-> us, resp |-> sendErrorResponse("Email already exists", 409)]
     ELSE LET withEmail ==
                IF body.email # Absent /\ body.email # us[i].email
                THEN [us[i] EXCEPT !.email = body.email] ELSE us[i]
              updated ==
                IF body.name # Absent
                THEN [withEmail EXCEPT !.name = body.name] ELSE withEmail
              closed == [updated EXCEPT !.refreshTokens = << >>]
          IN [users |-> [us EXCEPT ![i] = closed],
              resp |-> sendSuccessResponse(sanitizeUser(closed),
                                           "Profile updated successfully", 200)]

\* a mutant of updateCurrentUserProfile: the email is taken unchecked
updateCurrentUserProfileNoCheck(us, claims, body) ==
  LET i == FindById(us, claims.id)
  IN IF i = 0
     THEN [users |-> us, resp |-> sendErrorResponse("User not found", 404)]
     ELSE LET withEmail ==
                IF body.email # Absent /\ body.email # us[i].email
                THEN [us[i] EXCEPT !.email = body.email] ELSE us[i]
              updated ==
                IF body.name # Absent
                THEN [withEmail EXCEPT !.name = body.name] ELSE withEmail
          IN [users |-> [us EXCEPT ![i] = updated],
              resp |-> sendSuccessResponse(sanitizeUser(updated),
                                           "Profile updated successfully", 200)]

\* a mutant of updateCurrentUserProfile: the name is stored before the
\* email is checked
updateCurrentUserProfileNameFirst(us, claims, body) ==
  LET i == FindById(us, claims.id)
  IN IF i = 0
     THEN [users |-> us, resp |-> sendErrorResponse("User not found", 404)]
     ELSE LET named ==
                IF body.name # Absent
                THEN [us[i] EXCEPT !.name = body.name] ELSE us[i]
          IN IF /\ body.email # Absent
                /\ body.email # us[i].email
                /\ \E j \in 1..Len(us) :
                     us[j].email = body.email /\ us[j].id # claims.id
             THEN [users |-> [us EXCEPT ![i] = named],
                   resp |-> sendErrorResponse("Email already exists", 409)]
             ELSE LET updated ==
                        IF body.email # Absent /\ body.email # us[i].email
                        THEN [named EXCEPT !.email = body.email] ELSE named
                  IN [users |-> [us EXCEPT ![i] = updated],
                      resp |-> sendSuccessResponse(sanitizeUser(updated),
                                 "Profile updated successfully", 200)]

updateCurrentUserProfile(us, claims, body) ==
  LET i == FindById(us, claims.id)
  IN IF i = 0
     THEN [users |-> us, resp |-> sendErrorResponse("User not found", 404)]
     ELSE IF /\ body.email # Absent
             /\ body.email # us[i].email
             /\ \E j \in 1..Len(us) :
                  us[j].email = body.email /\ us[j].id # claims.id
     THEN [users |-> us, resp |-> sendErrorResponse("Email already exists", 409)]
     ELSE LET withEmail ==
                IF body.email # Absent /\ body.email # us[i].email
                THEN [us[i] EXCEPT !.email = body.email] ELSE us[i]
              updated ==
                IF body.name # Absent
                THEN [withEmail EXCEPT !.name = body.name] ELSE withEmail
          IN [users |-> [us EXCEPT ![i] = updated],
              resp |-> sendSuccessResponse(sanitizeUser(updated),
                                           "Profile updated successfully", 200)]

\* PUT /profile: authenticateToken, validateProfileUpdate,
\* updateCurrentUserProfile
UpdateProfileRoute(us, header, body, t) ==
  LET auth == authenticateToken(header, t)
      errors == validateProfileUpdateErrors(body)
  IN IF ~auth.ok THEN [users |-> us, resp |-> auth.resp]
     ELSE IF errors # << >>
     THEN [users |-> us, resp |-> validationFailed(errors)]
     ELSE updateCurrentUserProfile(us, auth.user, sanitizeBody(body))

(* -------------------------------- admin -------------------------------- *)
\* a query parameter is << >> when it was not sent, <<n>> when it parsed to n

\* a mutant of paginateArray: the pages are counted from 0
paginateArrayFromZero(items, page, limit) ==
  LET startIndex == page * limit
      endIndex == IF startIndex + limit < Len(items) THEN startIndex + limit
                  ELSE Len(items)
  IN IF startIndex >= Len(items) THEN << >>
     ELSE SubSeq(items, startIndex + 1, endIndex)

\* paginateArray, and .skip((page - 1) * limit).limit(limit):
\* items.slice((page - 1) * limit, (page - 1) * limit + limit)
paginateArray(items, page, limit) ==
  LET startIndex == (page - 1) * limit
      endIndex == IF startIndex + limit < Len(items) THEN startIndex + limit
                  ELSE Len(items)
  IN IF startIndex >= Len(items) THEN << >>
     ELSE SubSeq(items, startIndex + 1, endIndex)

\* Math.ceil(totalItems / limit)
CeilDiv(a, b) == (a + b - 1) \div b

\* getAllUsers; `sorted` is the stored users in the order the sort gives
getAllUsers(sorted, query) ==
  LET page == IF query.page = << >> THEN 1 ELSE query.page[1]
      limit == IF query.limit = << >> THEN 10 ELSE query.limit[1]
  IN IF Len(sorted) = 0 THEN sendErrorResponse("No users found", 404)
     ELSE IF query.page # << >> /\ page < 1
     THEN sendErrorResponse("Page must be a positive integer greater than 0.", 400)
     ELSE IF query.limit # << >> /\ (limit < 1 \/ limit > 100)
     THEN sendErrorResponse("Limit must be a positive integer between 1 and 100.", 400)
     ELSE LET paginatedUsers == paginateArray(sorted, page, limit)
              totalPages == CeilDiv(Len(sorted), limit)
          IN sendSuccessResponse(
               [users |-> [k \in 1..Len(paginatedUsers) |->
                             sanitizeUser(paginatedUsers[k])],
                pagination |-> [currentPage |-> page,
                                totalPages |-> totalPages,
                                totalItems |-> Len(sorted),
                                itemsPerPage |-> limit,
                                hasNextPage |-> page < totalPages,
                                hasPreviousPage |-> page > 1]],
               "Users retrieved successfully", 200)

\* the routes' required roles: authorizeRole("Admin")
AdminOnly == {"Admin"}

\* GET /all: authenticateToken, authorizeRole("Admin"), getAllUsers
GetAllUsersRoute(sorted, header, query, t) ==
  LET auth == authenticateToken(header, t)
  IN IF ~auth.ok THEN auth.resp
     ELSE IF ~authorizeRole(AdminOnly, auth.user) THEN accessDenied
     ELSE getAllUsers(sorted, query)

getUserById(us, id) ==
  LET i == FindById(us, id)
  IN IF i = 0 THEN sendErrorResponse("User not found", 404)
     ELSE sendSuccessResponse(sanitizeUser(us[i]),
                              "User retrieved successfully", 200)

\* GET /:id: authenticateToken, authorizeRole("Admin"), getUserById
GetUserByIdRoute(us, header, id, t) ==
  LET auth == authenticateToken(header, t)
  IN IF ~auth.ok THEN auth.resp
     ELSE IF ~authorizeRole(AdminOnly, auth.user) THEN accessDenied
     ELSE getUserById(us, id)

(* ------------------------------- inputs -------------------------------- *)
EmailA == <<"a", "@", "x">>
EmailAUpper == <<"A", "@", "x">>
EmailB == <<"b", "@", "x">>
EmailBad == <<"a", "x">>

PwStrong == <<"T", "e", "s", "t", "@", "1", "2", "3">>
PwNoSymbol == <<"N", "e", "w", "P", "a", "s", "s", "1", "2", "3">>
PwShort == <<"1", "2", "3">>

NameAnn == <<"A", "n", "n">>
NameBen == <<"B", "e", "n">>
NameBad == <<"B", "1">>

RegisterBodies ==
  {[name |-> NameAnn, email |-> EmailA, password |-> PwStrong, role |-> ""],
   [name |-> NameAnn, email |-> EmailAUpper, password |-> PwStrong, role |-> ""],
   [name |-> NameBen, email |-> EmailB, password |-> PwStrong, role |-> "Admin"],
   [name |-> NameBen, email |-> EmailB, password |-> PwNoSymbol, role |-> ""],
   [name |-> NameBen, email |-> EmailB, password |-> PwShort, role |-> ""],
   [name |-> Absent, email |-> EmailB, password |-> PwStrong, role |-> ""],
   [name |-> NameBen, email |-> EmailBad, password |-> PwStrong, role |-> ""],
   [name |-> NameBen, email |-> Absent, password |-> PwStrong, role |-> ""],
   [name |-> NameBen, email |-> EmailB, password |-> Absent, role |-> ""]}

LoginBodies ==
  [email : {EmailA, EmailAUpper, EmailB, EmailBad},
   password : {PwStrong, PwNoSymbol, Absent}]

UpdateBodies ==
  {[name |-> Absent, email |-> Absent],
   [name |-> NameBen, email |-> Absent],
   [name |-> Absent, email |-> EmailB],
   [name |-> NameBen, email |-> EmailB],
   [name |-> NameBad, email |-> EmailBad]}

\* tokens no handler issued: signed with another secret
ForgedAccess ==
  [secret |-> "wrong_secret", id |-> 1, email |-> EmailA, role |-> "Admin",
   iat |-> 0, exp |-> MaxTime + 1]
ForgedRefresh ==
  [secret |-> "wrong_secret", id |-> 1, email |-> Absent, role |-> "",
   iat |-> 0, exp |-> MaxTime + 1]

(* -------------------------------- state -------------------------------- *)
VARIABLES
  users,     \* the user store, in insertion order
  now,       \* the clock
  req,       \* the request handled last
  resp,      \* the response to it
  held,      \* the access token of the last response that carried one
  revoked,   \* the refresh tokens a successful logout has presented
  pending,   \* register requests in flight (concurrent handling)
  hits,      \* the rate limiters' counts for one client address, this window
  served     \* that address's requests the limiters let through, this window

vars == <<users, now, req, resp, held, revoked, pending, hits, served>>

Idle == [op |-> "none"]
NoResponse == [status |-> 0, message |-> "", data |-> Null]

\* the refresh tokens clients hold: those registered now and those logged out
RefreshHeld ==
  UNION {{users[i].refreshTokens[k] : k \in 1..Len(users[i].refreshTokens)} :
           i \in 1..Len(users)}
  \cup revoked

\* what a client can send as its refresh token
BodyTokens == RefreshHeld \cup {held, Garbage, ForgedRefresh, NoToken}

\* the Authorization headers sent to the routes that change or list users
Headers == {<< >>, <<"Bearer", held>>, <<"Bearer", Garbage>>}

\* the Authorization headers sent to GET /profile
ProfileHeaders ==
  {<< >>, <<"InvalidFormat">>}
  \cup {<<"Bearer", tok>> : tok \in {held, Garbage, ForgedAccess, NoToken}}
  \cup {<<"Basic", tok>> : tok \in {held, Garbage} \ {NoToken}}
  \cup {<<"Bearer", tok>> : tok \in RefreshHeld}

\* the counts of a window in which the address has sent nothing
NoHits == [api |-> 0, auth |-> 0, create |-> 0]
NoneServed == [login |-> 0, register |-> 0]

RegSlots == {1, 2}
SlotIdle == [pc |-> "idle"]

Init ==
  /\ users = << >>
  /\ now = 0
  /\ req = Idle
  /\ resp = NoResponse
  /\ held = NoToken
  /\ revoked = {}
  /\ pending = [k \in RegSlots |-> SlotIdle]
  /\ hits = NoHits
  /\ served = NoneServed

(* ------------------------- requests, one by one ------------------------ *)
\* A request is taken when none is being handled; Deliver hands its
\* response to the client, who keeps the tokens in it.
\* the sessions a user has open or has logged out
Sessions(user) ==
  Len(user.refreshTokens) + Cardinality({tok \in revoked : tok.id = user.id})

Register ==
  /\ req = Idle
  /\ \E body \in RegisterBodies, salt \in Salts :
       LET out == RegisterRoute(users, body, now, salt)
       IN /\ Len(out.users) <= MaxUsers
          /\ users' = out.users
          /\ req' = [op |-> "register", body |-> body]
          /\ resp' = out.resp
          /\ UNCHANGED <<now, held, revoked, pending, hits, served>>

Login ==
  /\ req = Idle
  /\ \E body \in LoginBodies :
       LET out == LoginRoute(users, body, now)
       IN /\ \A i \in 1..Len(out.users) : Sessions(out.users[i]) <= MaxTokens
          /\ users' = out.users
          /\ req' = [op |-> "login", body |-> body]
          /\ resp' = out.resp
          /\ UNCHANGED <<now, held, revoked, pending, hits, served>>

Logout ==
  /\ req = Idle
  /\ \E header \in Headers, tok \in BodyTokens :
       LET body == [refreshToken |-> tok]
           out == LogoutRoute(users, header, body, now)
       IN /\ users' = out.users
          /\ req' = [op |-> "logout", header |-> header, body |-> body]
          /\ resp' = out.resp
          /\ revoked' = IF out.resp.status = 200 THEN revoked \cup {tok}
                        ELSE revoked
          /\ UNCHANGED <<now, held, pending, hits, served>>

Refresh ==
  /\ req = Idle
  /\ \E tok \in BodyTokens :
       LET body == [refreshToken |-> tok]
       IN /\ req' = [op |-> "refresh", body |-> body]
          /\ resp' = RefreshRoute(users, body, now)
          /\ UNCHANGED <<users, now, held, revoked, pending, hits, served>>

GetProfile ==
  /\ req = Idle
  /\ \E header \in ProfileHeaders :
       /\ req' = [op |-> "getProfile", header |-> header]
       /\ resp' = GetProfileRoute(users, header, now)
       /\ UNCHANGED <<users, now, held, revoked, pending, hits, served>>

UpdateProfile ==
  /\ req = Idle
  /\ \E header \in Headers, body \in UpdateBodies :
       LET out == UpdateProfileRoute(users, header, body, now)
       IN /\ users' = out.users
          /\ req' = [op |-> "updateProfile", header |-> header, body |-> body]
          /\ resp' = out.resp
          /\ UNCHANGED <<now, held, revoked, pending, hits, served>>

\* the orders a sort of the stored users can give
SortedOrders(us) ==
  {[k \in 1..Len(us) |-> us[p[k]]] :
     p \in {q \in [1..Len(us) -> 1..Len(us)] :
              \A a, b \in 1..Len(us) : q[a] = q[b] => a = b}}

ListQueries ==
  {[page |-> << >>, limit |-> << >>],
   [page |-> <<2>>, limit |-> <<1>>],
   [page |-> <<0>>, limit |-> <<101>>]}

GetAllUsers ==
  /\ req = Idle
  /\ \E header \in Headers, query \in ListQueries,
        sorted \in SortedOrders(users) :
       /\ req' = [op |-> "getAllUsers", header |-> header, query |-> query]
       /\ resp' = GetAllUsersRoute(sorted, header, query, now)
       /\ UNCHANGED <<users, now, held, revoked, pending, hits, served>>

GetUserById ==
  /\ req = Idle
  /\ \E header \in Headers, id \in 1..(MaxUsers + 1) :
       /\ req' = [op |-> "getUserById", header |-> header, id |-> id]
       /\ resp' = GetUserByIdRoute(users, header, id, now)
       /\ UNCHANGED <<users, now, held, revoked, pending, hits, served>>

Deliver ==
  /\ req # Idle
  /\ held' = IF "accessToken" \in DOMAIN resp.data
             THEN resp.data.accessToken ELSE held
  /\ req' = Idle
  /\ resp' = NoResponse
  /\ UNCHANGED <<users, now, revoked, pending, hits, served>>

Tick ==
  /\ req = Idle
  /\ now < MaxTime
  /\ now' = now + 1
  /\ UNCHANGED <<users, req, resp, held, revoked, pending, hits, served>>

Next ==
  \/ Register
  \/ Login
  \/ Logout
  \/ Refresh
  \/ GetProfile
  \/ UpdateProfile
  \/ GetAllUsers
  \/ GetUserById
  \/ Deliver
  \/ Tick

Spec == Init /\ [][Next]_vars

(* -------------------- register requests, interleaved ------------------- *)
\* createUser awaits hashPassword between its existence check and its
\* insert, so another request can run in between.
RegisterStart(k) ==
  /\ pending[k].pc = "idle"
  /\ \E body \in RegisterBodies :
       LET errors == validateRegistrationErrors(body)
           check == createUserCheck(users, sanitizeBody(body))
       IN pending' =
            [pending EXCEPT ![k] =
               IF errors # << >>
               THEN [pc |-> "done", body |-> body, resp |-> validationFailed(errors)]
               ELSE IF check.status # 0
               THEN [pc |-> "done", body |-> sanitizeBody(body), resp |-> check]
               ELSE [pc |-> "hashing", body |-> sanitizeBody(body), resp |-> NoResponse]]
  /\ UNCHANGED <<users, now, req, resp, held, revoked, hits, served>>

RegisterFinish(k) ==
  /\ pending[k].pc = "hashing"
  /\ \E salt \in Salts :
       LET out == createUserInsert(users, pending[k].body, now, salt)
       IN /\ users' = out.users
          /\ pending' = [pending EXCEPT ![k] = [@ EXCEPT !.pc = "done",
                                                         !.resp = out.resp]]
  /\ UNCHANGED <<now, req, resp, held, revoked, hits, served>>

NextRace ==
  \/ \E k \in RegSlots : RegisterStart(k) \/ RegisterFinish(k)
  \/ Tick

SpecRace == Init /\ [][NextRace]_vars

(* ================================ claims =============================== *)
GatedOps == {"logout", "getProfile", "updateProfile", "getAllUsers", "getUserById"}

TokensOf(user) == {user.refreshTokens[k] : k \in 1..Len(user.refreshTokens)}

SameIgnoringCase(e1, e2) ==
  /\ Len(e1) = Len(e2)
  /\ \A k \in 1..Len(e1) : ToLower(e1[k]) = ToLower(e2[k])

\* a step that handles a request of the given kind
Handles(op) == req.op = "none" /\ req'.op = op

\* C1: once a Logout presenting refresh token t has succeeded, every later
\* Refresh presenting the same t is answered 401 and yields no access token.
C1_RevokedTokenNeverRefreshes ==
  (req.op = "refresh" /\ req.body.refreshToken \in revoked)
    => (resp.status = 401 /\ "accessToken" \notin DOMAIN resp.data)

\* C2: of two concurrent Register requests that carry the same email and are
\* otherwise valid, exactly one is answered 201 and the other 409, and the
\* store ends with exactly one user for that email.
C2_ConcurrentRegisterOneWins ==
  \A j, k \in RegSlots :
    (/\ j < k
     /\ pending[j].pc = "done" /\ pending[k].pc = "done"
     /\ pending[j].resp.status # 400 /\ pending[k].resp.status # 400
     /\ pending[j].body.email = pending[k].body.email)
    => (/\ {pending[j].resp.status, pending[k].resp.status} = {201, 409}
        /\ Cardinality({i \in 1..Len(users) :
                          users[i].email = pending[j].body.email}) = 1)

\* C3: a Register request (with a name and a password the validator accepts)
\* whose email differs from a stored user's email only in letter case is
\* answered 409 and adds no user.
C3_CaseVariantEmailRejected ==
  [][(/\ Handles("register")
      /\ req'.body.name # Absent
      /\ RegistrationPasswordErrors(req'.body.password) = << >>
      /\ \E i \in 1..Len(users) :
           /\ users[i].email # req'.body.email
           /\ SameIgnoringCase(users[i].email, req'.body.email))
     => (/\ resp'.status = 409
         /\ resp'.message = "Email already exists"
         /\ users' = users)]_vars

C3_Witness ==
  /\ req.op = "register"
  /\ req.body.email = EmailAUpper
  /\ resp.status = 409
  /\ \E i \in 1..Len(users) : users[i].email = EmailA

\* C4: a Login with an email no user has and a Login with an existing email
\* and a wrong password get the same response (status 401, same message),
\* and neither changes the store.
LoginUnknownEmail(body) ==
  /\ validateLoginErrors(body) = << >>
  /\ \A i \in 1..Len(users) : ~SameIgnoringCase(users[i].email, body.email)

LoginWrongPassword(body) ==
  /\ validateLoginErrors(body) = << >>
  /\ \E i \in 1..Len(users) :
       /\ SameIgnoringCase(users[i].email, body.email)
       /\ users[i].password.of # body.password

C4_AntiEnumeration ==
  (req.op = "login"
     /\ (LoginUnknownEmail(req.body) \/ LoginWrongPassword(req.body)))
  => /\ resp.status = 401
     /\ \A b \in LoginBodies :
          (LoginUnknownEmail(b) \/ LoginWrongPassword(b))
          => LoginRoute(users, b, now) = [users |-> users, resp |-> resp]

C4_Witness ==
  /\ req.op = "login"
  /\ LoginWrongPassword(req.body)
  /\ resp.status = 401
  /\ \E b \in LoginBodies : LoginUnknownEmail(b)

\* C5: no response of Register, GetProfile, UpdateProfile, the admin list or
\* the admin get-user-by-id carries a password digest or a refresh-token
\* collection.
UserPayloads ==
  IF req.op = "register" /\ "user" \in DOMAIN resp.data
    THEN {resp.data.user}
  ELSE IF req.op \in {"getProfile", "updateProfile", "getUserById"}
          /\ resp.status = 200
    THEN {resp.data}
  ELSE IF req.op = "getAllUsers" /\ resp.status = 200
    THEN {resp.data.users[k] : k \in 1..Len(resp.data.users)}
  ELSE {}

C5_Sanitization ==
  /\ \A payload \in UserPayloads :
       DOMAIN payload \cap {"password", "refreshTokens"} = {}
  /\ req.op \in {"register", "getProfile", "updateProfile", "getAllUsers",
                 "getUserById"}
       => DOMAIN resp.data \cap {"password", "refreshTokens"} = {}

C5_Witness ==
  /\ req.op = "getAllUsers"
  /\ resp.status = 200
  /\ Len(resp.data.users) = 2
  /\ \E i \in 1..Len(users) : Len(users[i].refreshTokens) > 0

RefreshAcceptable(token) ==
  /\ token.secret = "JWT_REFRESH_SECRET"
  /\ now < token.exp
  /\ \E i \in 1..Len(users) :
       users[i].id = token.id /\ token \in TokensOf(users[i])

C7_RefreshIff ==
  (req.op = "refresh" /\ req.body.refreshToken # NoToken)
  => IF RefreshAcceptable(req.body.refreshToken)
     THEN resp.status = 200 /\ "accessToken" \in DOMAIN resp.data
     ELSE resp.status = 401 /\ "accessToken" \notin DOMAIN resp.data

C7_Witness ==
  /\ req.op = "refresh"
  /\ \E i \in 1..Len(users) : req.body.refreshToken \in TokensOf(users[i])
  /\ now >= req.body.refreshToken.exp
  /\ resp.status = 401

\* C8: the access token a successful Refresh returns passes the
\* authentication gate at any time before its own expiry and carries the id
\* and the role of the user that owns the refresh token.
C8_RefreshedTokenAuthenticates ==
  (req.op = "refresh" /\ resp.status = 200)
  => \A i \in 1..Len(users) :
       req.body.refreshToken \in TokensOf(users[i])
       => /\ \A t \in now..(resp.data.accessToken.exp - 1) :
               LET gate == authenticateToken(<<"Bearer", resp.data.accessToken>>, t)
               IN /\ gate.ok
                  /\ gate.user.id = users[i].id
                  /\ gate.user.role = users[i].role
          /\ resp.data.accessToken.exp > now

C8_Witness ==
  /\ req.op = "refresh"
  /\ resp.status = 200
  /\ \E i \in 1..Len(users) :
       /\ req.body.refreshToken \in TokensOf(users[i])
       /\ users[i].role = "Admin"

\* C9: on a protected route a request with no Authorization header is
\* answered 401 'No token provided'; one whose bearer token is malformed,
\* expired or wrongly signed is answered 403 'Invalid token'; only a request
\* whose token verifies reaches the handler, with the token's claims as the
\* request's user.
AccessVerifies(token) == token.secret = "JWT_SECRET" /\ now < token.exp

C9_GateStatusCodes ==
  req.op \in GatedOps
  => /\ req.header = << >>
          => resp.status = 401 /\ resp.message = "No token provided"
     /\ (Len(req.header) = 2 /\ req.header[1] = "Bearer"
           /\ req.header[2] # NoToken /\ ~AccessVerifies(req.header[2]))
          => resp.status = 403 /\ resp.message = "Invalid token"
     /\ resp.message \notin {"No token provided", "Invalid token"}
          => /\ Len(req.header) = 2
             /\ AccessVerifies(req.header[2])
             /\ authenticateToken(req.header, now).user = Claims(req.header[2])
             /\ (req.op = "getProfile" /\ resp.status = 200)
                  => resp.data.id = req.header[2].id

C9_Witness ==
  /\ req.op = "getProfile"
  /\ Len(req.header) = 2
  /\ req.header[1] = "Bearer"
  /\ req.header[2].secret = "JWT_SECRET"
  /\ now >= req.header[2].exp
  /\ resp.status = 403

\* C10: a request to a protected route whose Authorization header does not
\* start with 'Bearer ' is always answered 401 'No token provided' and is
\* never authenticated, whatever follows the first word.
C10_NonBearerHeaderRejected ==
  (req.op \in GatedOps /\ req.header # << >> /\ req.header[1] # "Bearer")
  => resp.status = 401 /\ resp.message = "No token provided"

(* --------------------- registrations with any role --------------------- *)
\* createUser takes req.body.role as sent
RoleBodies ==
  {[name |-> NameAnn, email |-> EmailA, password |-> PwStrong, role |-> r] :
     r \in {"", "Moderator", "Root"}}
  \cup {[name |-> NameBen, email |-> EmailB, password |-> PwStrong, role |-> r] :
          r \in {"", "Admin"}}

RegisterRoles ==
  /\ req = Idle
  /\ \E body \in RoleBodies, salt \in Salts :
       LET out == RegisterRoute(users, body, now, salt)
       IN /\ Len(out.users) <= MaxUsers
          /\ users' = out.users
          /\ req' = [op |-> "register", body |-> body]
          /\ resp' = out.resp
          /\ UNCHANGED <<now, held, revoked, pending, hits, served>>

NextRoles ==
  \/ RegisterRoles
  \/ Login
  \/ GetProfile
  \/ GetAllUsers
  \/ GetUserById
  \/ Deliver
  \/ Tick

SpecRoles == Init /\ [][NextRoles]_vars

\* the roles of the specification's closed enumeration
Roles == {"User", "Admin", "Moderator"}

\* C11: a role-protected handler runs only if the role in the verified
\* claims is in the route's required set, otherwise the answer is 403: on
\* list-users and get-user-by-id (required set {Admin}) every other role is
\* refused, an Admin is refused by any required set without Admin, and
\* GET /profile accepts every authenticated role.
C11_RoleSetMembership ==
  (req.op \in {"getAllUsers", "getUserById", "getProfile"}
     /\ Len(req.header) = 2 /\ req.header[2] # NoToken
     /\ AccessVerifies(req.header[2]))
  => LET role == req.header[2].role
     IN /\ (req.op # "getProfile" /\ role # "Admin")
             => /\ resp.status = 403
                /\ resp.message = "Access denied: insufficient permissions"
        /\ (req.op # "getProfile" /\ role = "Admin")
             => resp.status \in {200, 400, 404}
        /\ req.op = "getProfile" => resp.status = 200
        /\ \A required \in SUBSET Roles :
             authorizeRole(required, Claims(req.header[2])) <=> role \in required

C11_Witness ==
  /\ req.op = "getAllUsers"
  /\ Len(req.header) = 2
  /\ AccessVerifies(req.header[2])
  /\ req.header[2].role = "Moderator"
  /\ resp.status = 403

\* C12: a refresh token sent as the bearer access token is rejected by the
\* authentication gate, and an access token sent as the refresh token of
\* Refresh or of an authenticated Logout is answered 401; none of these
\* requests changes the store.
C12_CrossUseFails ==
  [][/\ (Handles("getProfile")
           /\ Len(req'.header) = 2 /\ req'.header[1] = "Bearer"
           /\ req'.header[2] \in RefreshHeld)
          => (resp'.status = 403 /\ resp'.message = "Invalid token"
                /\ users' = users)
     /\ (Handles("refresh") /\ held # NoToken /\ req'.body.refreshToken = held)
          => (resp'.status = 401 /\ users' = users)
     /\ (Handles("logout") /\ held # NoToken /\ req'.body.refreshToken = held
           /\ authenticateToken(req'.header, now).ok)
          => (resp'.status = 401 /\ users' = users /\ revoked' = revoked)]_vars

C12_Witness ==
  /\ req.op = "logout"
  /\ held # NoToken
  /\ req.body.refreshToken = held
  /\ req.header = <<"Bearer", held>>
  /\ AccessVerifies(held)
  /\ resp.status = 401

\* C13: an access token issued for a user passes the authentication gate
\* with that user's id at every time before its expiry and is answered 403
\* by the gate at every time from its expiry on.
IssuedFor ==
  IF req.op = "register" THEN resp.data.user.id
  ELSE IF req.op = "login"
    THEN users[FindByEmail(users, normalizeEmail(req.body.email))].id
  ELSE req.body.refreshToken.id

C13_AccessTokenWindow ==
  /\ (req.op \in {"register", "login", "refresh"}
        /\ "accessToken" \in DOMAIN resp.data)
     => \A t \in 0..(MaxTime + 1) :
          LET gate == authenticateToken(<<"Bearer", resp.data.accessToken>>, t)
          IN IF t < resp.data.accessToken.exp
             THEN t >= now => (gate.ok /\ gate.user.id = IssuedFor)
             ELSE ~gate.ok /\ gate.resp.status = 403
  /\ (req.op \in GatedOps /\ held # NoToken /\ req.header = <<"Bearer", held>>)
     => IF now < held.exp
        THEN resp.message \notin {"No token provided", "Invalid token"}
        ELSE resp.status = 403 /\ resp.message = "Invalid token"

C13_Witness ==
  /\ req.op = "login"
  /\ resp.status = 200
  /\ now = 0
  /\ resp.data.accessToken.exp <= MaxTime

\* C14: two requests to the same protected route whose bearer tokens fail
\* verification for different reasons (expired, wrong signature, malformed)
\* get the same status and the same message.
FailingBearers ==
  {tok \in {held, Garbage, ForgedAccess} \cup RefreshHeld :
     tok # NoToken /\ ~AccessVerifies(tok)}

FailureReason(tok) ==
  IF tok.secret = "JWT_SECRET" THEN "expired"
  ELSE IF tok.secret = "malformed" THEN "malformed"
  ELSE "wrong signature"

C14_CoarseGateFailure ==
  (req.op \in GatedOps /\ Len(req.header) = 2 /\ req.header[1] = "Bearer"
     /\ req.header[2] \in FailingBearers)
  => \A tok \in FailingBearers :
       FailureReason(tok) # FailureReason(req.header[2])
       => authenticateToken(<<"Bearer", tok>>, now).resp = resp

C14_Witness ==
  /\ req.op = "getProfile"
  /\ req.header = <<"Bearer", ForgedAccess>>
  /\ resp.status = 403
  /\ held \in FailingBearers
  /\ FailureReason(held) = "expired"

\* C15: a Register request without a name, an email or a password, or with
\* a password the policy refuses, is answered 400; an otherwise valid one
\* whose email is stored is answered 409; in each case the store is
\* unchanged and the response carries no token.
RegisterIncomplete(body) ==
  \/ body.name = Absent
  \/ body.email = Absent
  \/ body.password = Absent
  \/ RegistrationPasswordErrors(body.password) # << >>

RegisterDuplicate(body) ==
  /\ ~RegisterIncomplete(body)
  /\ isEmail(body.email)
  /\ \E i \in 1..Len(users) : SameIgnoringCase(users[i].email, body.email)

FourRulePolicy(p) ==
  /\ Len(p) >= 8
  /\ HasChar(p, UpperChars)
  /\ HasChar(p, LowerChars)
  /\ HasChar(p, DigitChars)

C16_FourRulePasswordPolicy ==
  (req.op = "register" /\ req.body.name # Absent /\ isEmail(req.body.email))
  => IF FourRulePolicy(req.body.password)
     THEN resp.status \in {201, 409}
     ELSE resp.status = 400

(* ------------------------- credentials, at length ---------------------- *)
\* passwords of 73 characters that differ in the last one only
PwLongStem == PwStrong \o [k \in 1..64 |-> "a"]
PwLongA == PwLongStem \o <<"a">>
PwLongB == PwLongStem \o <<"b">>

CredSalts == {"s1", "s2"}

CredBodies ==
  {[name |-> NameAnn, email |-> EmailA, password |-> PwLongA, role |-> ""],
   [name |-> NameBen, email |-> EmailB, password |-> PwStrong, role |-> ""]}

CredLoginBodies ==
  [email : {EmailA, EmailB}, password : {PwStrong, PwNoSymbol, PwLongA, PwLongB}]

RegisterCred ==
  /\ req = Idle
  /\ \E body \in CredBodies, salt \in CredSalts :
       LET out == RegisterRoute(users, body, now, salt)
       IN /\ Len(out.users) <= MaxUsers
          /\ users' = out.users
          /\ req' = [op |-> "register", body |-> body]
          /\ resp' = out.resp
          /\ UNCHANGED <<now, held, revoked, pending, hits, served>>

LoginCred ==
  /\ req = Idle
  /\ \E body \in CredLoginBodies :
       LET out == LoginRoute(users, body, now)
       IN /\ \A i \in 1..Len(out.users) : Sessions(out.users[i]) <= MaxTokens
          /\ users' = out.users
          /\ req' = [op |-> "login", body |-> body]
          /\ resp' = out.resp
          /\ UNCHANGED <<now, held, revoked, pending, hits, served>>

NextCred ==
  \/ RegisterCred
  \/ LoginCred
  \/ Deliver
  \/ Tick

SpecCred == Init /\ [][NextCred]_vars

\* C17: for a policy-satisfying password p and any salt, comparePassword
\* accepts p and refuses every other password against hashPassword's digest
\* of p; after a successful Register(e, p) a Login(e, q) succeeds exactly
\* when q = p, and no operation changes a stored digest.
TriedPasswords == {PwStrong, PwNoSymbol, PwShort, PwLongA, PwLongB}

\* the password each address registers with under SpecCred
RegisteredPassword(email) == IF email = EmailA THEN PwLongA ELSE PwStrong

C17_CredentialRoundTrip ==
  [][/\ (Handles("register") /\ resp'.status = 201)
          => \A salt \in CredSalts, q \in TriedPasswords :
               comparePassword(q, bcryptHash(req'.body.password, salt))
                 <=> q = req'.body.password
     /\ Len(users') >= Len(users)
     /\ \A i \in 1..Len(users) : users'[i].password = users[i].password
     /\ (Handles("login")
           /\ \E i \in 1..Len(users) : users[i].email = req'.body.email)
          => (resp'.status = 200
                <=> req'.body.password = RegisteredPassword(req'.body.email))]_vars

\* C18: every stored user's role is one of User, Admin, Moderator; a
\* Register request without a role stores role User, and the response and
\* the access token it returns carry role User.
C18_RoleInvariant ==
  /\ \A i \in 1..Len(users) : users[i].role \in Roles
  /\ (req.op = "register" /\ req.body.role = "" /\ resp.status = 201)
     => /\ resp.data.user.role = "User"
        /\ resp.data.accessToken.role = "User"
        /\ users[FindById(users, resp.data.user.id)].role = "User"

\* C19: when Register and UpdateProfile requests are handled one after
\* another, no two stored users ever have the same email.
C19_EmailUnique ==
  \A i, j \in 1..Len(users) :
    SameIgnoringCase(users[i].email, users[j].email) => i = j

C19_Witness ==
  /\ req.op = "updateProfile"
  /\ resp.status = 200
  /\ Len(users) = 2
  /\ req.body.email # Absent
  /\ \E i \in 1..Len(users) :
       users[i].id = req.header[2].id /\ users[i].email # EmailA
         /\ users[i].id = 1

\* C20: an UpdateProfile whose email another user has is answered 409 and
\* leaves every user record as it was, the caller's name included when the
\* request also carried a new name.
C20_UpdateConflictChangesNothing ==
  [][(/\ Handles("updateProfile")
      /\ authenticateToken(req'.header, now).ok
      /\ validateProfileUpdateErrors(req'.body) = << >>
      /\ req'.body.email # Absent
      /\ \E j \in 1..Len(users) :
           /\ users[j].id # req'.header[2].id
           /\ SameIgnoringCase(users[j].email, req'.body.email))
     => (/\ resp'.status = 409
         /\ resp'.message = "Email already exists"
         /\ users' = users)]_vars

C20_Witness ==
  /\ req.op = "updateProfile"
  /\ resp.status = 409
  /\ req.body.name # Absent
  /\ \E i \in 1..Len(users) :
       users[i].id = req.header[2].id /\ users[i].name # req.body.name

\* C21: a successful Login answers 200 with an access token and a refresh
\* token, appends the returned refresh token to the user's collection, keeps
\* every token the collection held (each still accepted by Refresh while
\* unexpired) and changes nothing else in the store.
C21_LoginAppendsOnly ==
  [][(Handles("login") /\ resp'.status = 200)
     => /\ DOMAIN resp'.data = {"accessToken", "refreshToken"}
        /\ \E i \in 1..Len(users) :
             /\ SameIgnoringCase(users[i].email, req'.body.email)
             /\ users' = [users EXCEPT ![i].refreshTokens =
                            Append(@, resp'.data.refreshToken)]
             /\ \A tok \in TokensOf(users[i]) :
                  now' < tok.exp
                  => RefreshRoute(users', [refreshToken |-> tok], now').status = 200]_vars

C21_Witness ==
  /\ req.op = "login"
  /\ resp.status = 200
  /\ \E i \in 1..Len(users) :
       /\ Len(users[i].refreshTokens) = 2
       /\ users[i].refreshTokens[2] = resp.data.refreshToken
       /\ users[i].refreshTokens[1] # resp.data.refreshToken
       /\ now < users[i].refreshTokens[1].exp

\* C22: a successful Logout answers 200 with a null payload and removes
\* every occurrence of the presented refresh token from its owner's
\* collection; the owner's other tokens and every other field of every user
\* are unchanged.
C22_LogoutRemovesOnlyThatToken ==
  [][(Handles("logout") /\ resp'.status = 200)
     => /\ resp'.data = Null
        /\ \E i \in 1..Len(users) :
             /\ users[i].id = req'.body.refreshToken.id
             /\ req'.body.refreshToken \in TokensOf(users[i])
             /\ req'.body.refreshToken \notin TokensOf(users'[i])
             /\ users' = [users EXCEPT ![i].refreshTokens =
                            SelectSeq(@, LAMBDA x : x # req'.body.refreshToken)]]_vars

C22_Witness ==
  /\ req.op = "logout"
  /\ resp.status = 200
  /\ resp.data = Null
  /\ Len(users) = 2
  /\ \E i \in 1..Len(users) :
       /\ users[i].id = req.body.refreshToken.id
       /\ Len(users[i].refreshTokens) = 1

\* C23: a successful Refresh returns a new access token and no refresh
\* token, leaves every user's refresh-token collection unchanged, and the
\* presented token is accepted again at every later time before it expires
\* as long as it is not logged out.
C23_NoRotation ==
  [][(Handles("refresh") /\ resp'.status = 200)
     => /\ DOMAIN resp'.data = {"email", "accessToken"}
        /\ resp'.data.accessToken.secret = "JWT_SECRET"
        /\ users' = users
        /\ \A t \in now'..(req'.body.refreshToken.exp - 1) :
             RefreshRoute(users', req'.body, t)
               = [resp' EXCEPT !.data.accessToken =
                    generateToken(users[FindById(users, req'.body.refreshToken.id)], t)]]_vars

C23_Witness ==
  /\ req.op = "refresh"
  /\ resp.status = 200
  /\ now > req.body.refreshToken.iat
  /\ held # NoToken
  /\ held.id = req.body.refreshToken.id
  /\ held.iat = now

\* the access token minted in the same pair as a refresh token
PairMate(access, refresh) ==
  /\ access # NoToken
  /\ access.secret = "JWT_SECRET"
  /\ access.id = refresh.id
  /\ access.iat = refresh.iat

\* C24: after a successful Logout of a session, neither the refresh token
\* presented nor the access token minted with it is accepted by any endpoint:
\* a Refresh presenting the token is answered 401, and every gated request
\* bearing the session's access token is turned away by the gate.
C24_LogoutInvalidatesTokens ==
  [][\A r \in revoked :
       /\ (Handles("refresh") /\ req'.body.refreshToken = r)
            => resp'.status = 401
       /\ (req.op = "none" /\ req'.op \in GatedOps
             /\ Len(req'.header) = 2 /\ req'.header[1] = "Bearer"
             /\ PairMate(req'.header[2], r))
            => resp'.status \in {401, 403}]_vars

(* --------------------------- a failing store --------------------------- *)
\* The handlers with the User Store unavailable: every User.findOne,
\* User.findById and user.save rejects.  What a handler does before its
\* first store call is kept; the store is never changed.

\* asyncHandler: a rejection of the wrapped handler is passed to next(err),
\* where the application's error middleware answers
asyncHandlerRejected == serverError

\* createUser: the required-field check, then User.findOne rejects
createUserStoreDown(body) ==
  IF body.name = Absent \/ body.email = Absent \/ body.password = Absent
  THEN sendErrorResponse("Name, email, and password are required", 400)
  ELSE asyncHandlerRejected

RegisterRouteStoreDown(body) ==
  LET errors == validateRegistrationErrors(body)
  IN IF errors # << >> THEN validationFailed(errors)
     ELSE createUserStoreDown(sanitizeBody(body))

\* loginUser: User.findOne rejects
loginUserStoreDown(body) == asyncHandlerRejected

LoginRouteStoreDown(body) ==
  LET errors == validateLoginErrors(body)
  IN IF errors # << >> THEN validationFailed(errors)
     ELSE loginUserStoreDown(sanitizeBody(body))

\* logoutUser: verifyRefreshToken and User.findById sit in one try block,
\* whose catch answers whatever was thrown
logoutUserStoreDown(body, t) ==
  IF body.refreshToken = NoToken
  THEN sendErrorResponse("Refresh token is required", 400)
  ELSE sendErrorResponse("Invalid refresh token", 401)

LogoutRouteStoreDown(header, body, t) ==
  LET auth == authenticateToken(header, t)
  IN IF ~auth.ok THEN auth.resp ELSE logoutUserStoreDown(body, t)

\* refreshAccessToken: the same try block with its own catch
refreshAccessTokenStoreDown(body, t) ==
  IF body.refreshToken = NoToken
  THEN sendErrorResponse("Refresh token is required", 400)
  ELSE sendErrorResponse("Invalid or expired refresh token", 401)

RefreshRouteStoreDown(body, t) ==
  LET errors == validateRefreshTokenErrors(body)
  IN IF errors # << >> THEN validationFailed(errors)
     ELSE refreshAccessTokenStoreDown(body, t)

\* getCurrentUserProfile: User.findById rejects
getCurrentUserProfileStoreDown == asyncHandlerRejected

GetProfileRouteStoreDown(header, t) ==
  LET auth == authenticateToken(header, t)
  IN IF ~auth.ok THEN auth.resp ELSE getCurrentUserProfileStoreDown

\* updateCurrentUserProfile: User.findById rejects
updateCurrentUserProfileStoreDown == asyncHandlerRejected

UpdateProfileRouteStoreDown(header, body, t) ==
  LET auth == authenticateToken(header, t)
      errors == validateProfileUpdateErrors(body)
  IN IF ~auth.ok THEN auth.resp
     ELSE IF errors # << >> THEN validationFailed(errors)
     ELSE updateCurrentUserProfileStoreDown

\* a request handled while the store is down
StoreDown(r) ==
  [f \in DOMAIN r \cup {"route"} |->
     IF f = "route" THEN r.op ELSE IF f = "op" THEN "storeDown" ELSE r[f]]

RegisterStoreDown ==
  /\ req = Idle
  /\ \E body \in RegisterBodies :
       /\ req' = StoreDown([op |-> "register", body |-> body])
       /\ resp' = RegisterRouteStoreDown(body)
       /\ UNCHANGED <<users, now, held, revoked, pending, hits, served>>

LoginStoreDown ==
  /\ req = Idle
  /\ \E body \in LoginBodies :
       /\ req' = StoreDown([op |-> "login", body |-> body])
       /\ resp' = LoginRouteStoreDown(body)
       /\ UNCHANGED <<users, now, held, revoked, pending, hits, served>>

LogoutStoreDown ==
  /\ req = Idle
  /\ \E header \in Headers, tok \in BodyTokens :
       LET body == [refreshToken |-> tok]
       IN /\ req' = StoreDown([op |-> "logout", header |-> header, body |-> body])
          /\ resp' = LogoutRouteStoreDown(header, body, now)
          /\ UNCHANGED <<users, now, held, revoked, pending, hits, served>>

RefreshStoreDown ==
  /\ req = Idle
  /\ \E tok \in BodyTokens :
       LET body == [refreshToken |-> tok]
       IN /\ req' = StoreDown([op |-> "refresh", body |-> body])
          /\ resp' = RefreshRouteStoreDown(body, now)
          /\ UNCHANGED <<users, now, held, revoked, pending, hits, served>>

GetProfileStoreDown ==
  /\ req = Idle
  /\ \E header \in ProfileHeaders :
       /\ req' = StoreDown([op |-> "getProfile", header |-> header])
       /\ resp' = GetProfileRouteStoreDown(header, now)
       /\ UNCHANGED <<users, now, held, revoked, pending, hits, served>>

UpdateProfileStoreDown ==
  /\ req = Idle
  /\ \E header \in Headers, body \in UpdateBodies :
       /\ req' = StoreDown([op |-> "updateProfile", header |-> header, body |-> body])
       /\ resp' = UpdateProfileRouteStoreDown(header, body, now)
       /\ UNCHANGED <<users, now, held, revoked, pending, hits, served>>

NextFaulty ==
  \/ Register
  \/ Login
  \/ Logout
  \/ Refresh
  \/ Deliver
  \/ Tick
  \/ RegisterStoreDown
  \/ LoginStoreDown
  \/ LogoutStoreDown
  \/ RefreshStoreDown
  \/ GetProfileStoreDown
  \/ UpdateProfileStoreDown

SpecFaulty == Init /\ [][NextFaulty]_vars

\* the request went past the gate, the validators and the handler's own
\* input checks, so that the handler called the store
ReachedStore ==
  LET op == req.route
  IN CASE op = "register" ->
            /\ validateRegistrationErrors(req.body) = << >>
            /\ req.body.name # Absent
       [] op = "login" -> validateLoginErrors(req.body) = << >>
       [] op = "logout" ->
            /\ authenticateToken(req.header, now).ok
            /\ verifyRefreshTokenOk(req.body.refreshToken, now)
       [] op = "refresh" -> verifyRefreshTokenOk(req.body.refreshToken, now)
       [] op = "getProfile" -> authenticateToken(req.header, now).ok
       [] op = "updateProfile" ->
            /\ authenticateToken(req.header, now).ok
            /\ validateProfileUpdateErrors(req.body) = << >>

\* C25: when a handler's call to the User Store fails during Register,
\* Login, Refresh, Logout, GetProfile or UpdateProfile, the response is a
\* 500-class error and nothing is stored.
C25_StoreFailureIs500 ==
  (req.op = "storeDown" /\ ReachedStore)
    => resp.status >= 500

(* ---------------------------- rate limiting ---------------------------- *)
\* The limiters in front of POST /register and POST /login, for the requests
\* of one client address.  The requests of the other specifications come
\* from addresses below their limits and leave these counts alone.
RateLimitMaxRequests == 100
AuthRateLimitMax == 5
CreateAccountMax == 3

Min(a, b) == IF a <= b THEN a ELSE b

\* a mutant of rateLimit: the request after the last allowed one passes too
rateLimitOneMore(max, count) ==
  [hits |-> Min(count + 1, max + 2), limited |-> count + 1 > max + 1]

\* rateLimit({ max }): the address's count goes up by one for every request,
\* refused or not, and the request is refused once the count is above max;
\* a count above max is kept as max + 1, more changes no answer
rateLimit(max, count) ==
  [hits |-> Min(count + 1, max + 1), limited |-> count + 1 > max]

\* the limiter's answer: res.status(429).send(message)
tooManyRequests(message) == [status |-> 429, message |-> message, data |-> Null]

\* POST /register: apiRateLimiter, createAccountRateLimiter, then the rest
RegisterRouteLimited(us, h, body, t, salt) ==
  LET api == rateLimit(RateLimitMaxRequests, h.api)
      create == rateLimit(CreateAccountMax, h.create)
  IN IF api.limited
     THEN [users |-> us, hits |-> [h EXCEPT !.api = api.hits], passed |-> FALSE,
           resp |-> tooManyRequests(
                      "Too many requests from this IP, please try again later.")]
     ELSE IF create.limited
     THEN [users |-> us,
           hits |-> [h EXCEPT !.api = api.hits, !.create = create.hits],
           passed |-> FALSE,
           resp |-> tooManyRequests(
                      "Too many accounts created from this IP, please try again later.")]
     ELSE [users |-> RegisterRoute(us, body, t, salt).users,
           hits |-> [h EXCEPT !.api = api.hits, !.create = create.hits],
           passed |-> TRUE,
           resp |-> RegisterRoute(us, body, t, salt).resp]

\* POST /login: apiRateLimiter, authRateLimiter, then the rest
LoginRouteLimited(us, h, body, t) ==
  LET api == rateLimit(RateLimitMaxRequests, h.api)
      auth == rateLimit(AuthRateLimitMax, h.auth)
  IN IF api.limited
     THEN [users |-> us, hits |-> [h EXCEPT !.api = api.hits], passed |-> FALSE,
           resp |-> tooManyRequests(
                      "Too many requests from this IP, please try again later.")]
     ELSE IF auth.limited
     THEN [users |-> us,
           hits |-> [h EXCEPT !.api = api.hits, !.auth = auth.hits],
           passed |-> FALSE,
           resp |-> tooManyRequests(
                      "Too many authentication attempts from this IP, please try again later.")]
     ELSE [users |-> LoginRoute(us, body, t).users,
           hits |-> [h EXCEPT !.api = api.hits, !.auth = auth.hits],
           passed |-> TRUE,
           resp |-> LoginRoute(us, body, t).resp]

RateRegisterBodies ==
  {[name |-> NameAnn, email |-> EmailA, password |-> PwStrong, role |-> ""],
   [name |-> NameBen, email |-> EmailB, password |-> PwShort, role |-> ""]}

RateLoginBodies ==
  {[email |-> EmailA, password |-> PwStrong],
   [email |-> EmailA, password |-> PwNoSymbol]}

RegisterLimited ==
  /\ req = Idle
  /\ \E body \in RateRegisterBodies, salt \in Salts :
       LET out == RegisterRouteLimited(users, hits, body, now, salt)
       IN /\ Len(out.users) <= MaxUsers
          /\ users' = out.users
          /\ hits' = out.hits
          /\ served' = IF out.passed
                       THEN [served EXCEPT !.register = @ + 1] ELSE served
          /\ req' = [op |-> "register", body |-> body]
          /\ resp' = out.resp
          /\ UNCHANGED <<now, held, revoked, pending>>

LoginLimited ==
  /\ req = Idle
  /\ \E body \in RateLoginBodies :
       LET out == LoginRouteLimited(users, hits, body, now)
       IN /\ \A i \in 1..Len(out.users) : Sessions(out.users[i]) <= MaxTokens
          /\ users' = out.users
          /\ hits' = out.hits
          /\ served' = IF out.passed
                       THEN [served EXCEPT !.login = @ + 1] ELSE served
          /\ req' = [op |-> "login", body |-> body]
          /\ resp' = out.resp
          /\ UNCHANGED <<now, held, revoked, pending>>

\* windowMs has gone by: the store of every limiter starts again
WindowReset ==
  /\ req = Idle
  /\ hits # NoHits
  /\ hits' = NoHits
  /\ served' = NoneServed
  /\ UNCHANGED <<users, now, req, resp, held, revoked, pending>>

NextRate ==
  \/ RegisterLimited
  \/ LoginLimited
  \/ Deliver
  \/ WindowReset

SpecRate == Init /\ [][NextRate]_vars

C27_OnlyLogoutShrinks ==
  [][/\ Len(users') >= Len(users)
     /\ \A i \in 1..Len(users) :
          /\ users'[i].id = users[i].id
          /\ Len(users'[i].refreshTokens) < Len(users[i].refreshTokens)
               => Handles("logout") /\ resp'.status = 200
          /\ \A tok \in TokensOf(users[i]) \ TokensOf(users'[i]) :
               /\ Handles("logout")
               /\ resp'.status = 200
               /\ req'.body.refreshToken = tok]_vars

C27_Witness ==
  /\ req.op = "logout"
  /\ resp.status = 200
  /\ \E i \in 1..Len(users) :
       /\ users[i].id = req.body.refreshToken.id
       /\ users[i].refreshTokens = << >>
  /\ \E j \in 1..Len(users) :
       \E tok \in TokensOf(users[j]) : tok.exp <= now

\* the token a gated request bears fails the gate: none, or one that does
\* not verify as an access token now, or one whose role the route refuses
GateRefuses(r) ==
  LET token == IF Len(r.header) >= 2 THEN r.header[2] ELSE NoToken
  IN \/ token = NoToken
     \/ token.secret # "JWT_SECRET"
     \/ now >= token.exp
     \/ r.op \in {"getAllUsers", "getUserById"} /\ token.role # "Admin"

\* C28: a Logout, GetProfile, UpdateProfile or admin request that the gate
\* refuses is answered by the gate (401 without a token, 403 otherwise) and
\* changes no stored state; a refused Logout leaves the refresh token of its
\* body registered and usable, and is answered 401 rather than 400 when it
\* has neither an access token nor a refresh token.
C28_GateBeforeEffect ==
  [][(req.op = "none" /\ req'.op \in GatedOps /\ GateRefuses(req'))
     => /\ users' = users
        /\ revoked' = revoked
        /\ resp'.status \in {401, 403}
        /\ resp'.status = 401 <=> Len(req'.header) < 2 \/ req'.header[2] = NoToken
        /\ resp'.message \in {"No token provided", "Invalid token",
                              "Access denied: insufficient permissions"}
        /\ resp'.data = Null
        /\ (req'.op = "logout" /\ RefreshAcceptable(req'.body.refreshToken))
             => RefreshRoute(users', req'.body, now').status = 200]_vars

C28_Witness ==
  /\ req.op = "logout"
  /\ req.header = << >>
  /\ resp.status = 401
  /\ RefreshAcceptable(req.body.refreshToken)
  /\ RefreshRoute(users, req.body, now).status = 200

\* C29: a Refresh whose token fails verification and a Refresh whose token
\* verifies but is not registered (or whose user is absent) get the same
\* response, in status and in message: whenever a Refresh is answered 401,
\* every other token that would be refused now gets that very response.
C29_RefreshRejectionsAlike ==
  (req.op = "refresh" /\ resp.status = 401)
    => \A tok \in BodyTokens \ {NoToken} :
         LET other == RefreshRoute(users, [refreshToken |-> tok], now)
         IN other.status # 200 => other = resp

\* C30: every refresh token issued by a successful Register or Login differs
\* from those issued before it, so no collection holds the same token twice.
C30_FreshRefreshTokensUnique ==
  \A i \in 1..Len(users) :
    \A k, l \in 1..Len(users[i].refreshTokens) :
      k # l => users[i].refreshTokens[k] # users[i].refreshTokens[l]

(* ------------------- concurrent login, logout, refresh ----------------- *)
\* loginUser and logoutUser each read the user's document, change their
\* copy and save it; other requests run between the read and the save.  A
\* slot of pending holds a request between its awaits: the document it read
\* and, once it has answered, its response.

\* the User Store's update(user): the saved document replaces the stored one
storeUpdate(us, doc) == [us EXCEPT ![FindById(us, doc.id)] = doc]

SessionLoginBodies ==
  {[email |-> EmailA, password |-> PwStrong],
   [email |-> EmailA, password |-> PwNoSymbol]}

\* no token of the user carries the present second: the next issue is new
FreshSecond(doc) ==
  \A tok \in TokensOf(doc) \cup TokensOf(users[FindById(users, doc.id)])
             \cup {r \in revoked : r.id = doc.id} :
    tok.iat < now

\* loginUser up to `await comparePassword`: User.findOne reads the document
LoginRead(k) ==
  /\ pending[k].pc = "idle"
  /\ \E body \in SessionLoginBodies :
       LET errors == validateLoginErrors(body)
           i == FindByEmail(users, normalizeEmail(body.email))
       IN pending' =
            [pending EXCEPT ![k] =
               IF errors # << >>
               THEN [pc |-> "done", op |-> "login", resp |-> validationFailed(errors)]
               ELSE IF i = 0 \/ ~comparePassword(body.password, users[i].password)
               THEN [pc |-> "done", op |-> "login",
                     resp |-> sendErrorResponse("Invalid email or password", 401)]
               ELSE [pc |-> "loginRead", doc |-> users[i]]]
  /\ UNCHANGED <<users, now, req, resp, held, revoked, hits, served>>

\* loginUser from generateTokenPair on: push on the copy, user.save()
LoginWrite(k) ==
  /\ pending[k].pc = "loginRead"
  /\ FreshSecond(pending[k].doc)
  /\ Len(pending[k].doc.refreshTokens) < MaxTokens
  /\ LET doc == pending[k].doc
         pair == generateTokenPair(doc, now)
     IN /\ users' = storeUpdate(users, addRefreshToken(doc, pair.refreshToken))
        /\ pending' = [pending EXCEPT ![k] =
                         [pc |-> "done", op |-> "login", id |-> doc.id,
                          resp |-> sendSuccessResponse(pair, "Login successful", 200)]]
  /\ UNCHANGED <<now, req, resp, held, revoked, hits, served>>

\* POST /logout up to `await user.save()`: the gate, the token checks and
\* User.findById, which reads the document
LogoutRead(k) ==
  /\ pending[k].pc = "idle"
  /\ \E tok \in RefreshHeld :
       LET body == [refreshToken |-> tok]
           out == LogoutRoute(users, <<"Bearer", held>>, body, now)
       IN pending' =
            [pending EXCEPT ![k] =
               IF out.resp.status # 200
               THEN [pc |-> "done", op |-> "logout", resp |-> out.resp]
               ELSE [pc |-> "logoutRead", token |-> tok,
                     doc |-> users[FindById(users, tok.id)]]]
  /\ UNCHANGED <<users, now, req, resp, held, revoked, hits, served>>

\* logoutUser from the filter on: the copy without the token is saved
LogoutWrite(k) ==
  /\ pending[k].pc = "logoutRead"
  /\ users' = storeUpdate(users,
                removeRefreshToken(pending[k].doc, pending[k].token))
  /\ revoked' = revoked \cup {pending[k].token}
  /\ pending' = [pending EXCEPT ![k] =
                   [pc |-> "done", op |-> "logout",
                    resp |-> sendSuccessResponse(Null, "Logout successful", 200)]]
  /\ UNCHANGED <<now, req, resp, held, hits, served>>

\* the client takes the response; the slot serves the next request
SlotFree(k) ==
  /\ pending[k].pc = "done"
  /\ pending' = [pending EXCEPT ![k] = SlotIdle]
  /\ UNCHANGED <<users, now, req, resp, held, revoked, hits, served>>

\* POST /register, handled between the other requests
RegisterAlone ==
  /\ req = Idle
  /\ \E body \in RateRegisterBodies, salt \in Salts :
       LET out == RegisterRoute(users, body, now, salt)
       IN /\ users' = out.users
          /\ req' = [op |-> "register", body |-> body]
          /\ resp' = out.resp
          /\ UNCHANGED <<now, held, revoked, pending, hits, served>>

NextSession ==
  \/ RegisterAlone
  \/ Refresh
  \/ Deliver
  \/ Tick
  \/ \E k \in RegSlots :
       LoginRead(k) \/ LoginWrite(k) \/ LogoutRead(k) \/ LogoutWrite(k)
         \/ SlotFree(k)

SpecSession == Init /\ [][NextSession]_vars

C33_ProfileFrame ==
  [][/\ (Handles("updateProfile") /\ resp'.status = 200)
          => \E i \in 1..Len(users) :
               /\ users[i].id = req'.header[2].id
               /\ Len(users') = Len(users)
               /\ \A j \in 1..Len(users) : j # i => users'[j] = users[j]
               /\ \A f \in {"id", "role", "password", "refreshTokens"} :
                    users'[i][f] = users[i][f]
               /\ users'[i].name \in {users[i].name, req'.body.name}
               /\ \/ users'[i].email = users[i].email
                  \/ /\ req'.body.email # Absent
                     /\ SameIgnoringCase(users'[i].email, req'.body.email)
               /\ (req'.body.name # Absent => users'[i].name = req'.body.name)
               /\ (req'.body.name = Absent /\ req'.body.email = Absent)
                    => users' = users
               /\ \A tok \in TokensOf(users[i]) :
                    RefreshRoute(users', [refreshToken |-> tok], now').status
                      = RefreshRoute(users, [refreshToken |-> tok], now).status
     /\ Handles("getProfile")
          => /\ users' = users
             /\ revoked' = revoked
             /\ resp'.status = 200
                  => \E i \in 1..Len(users) :
                       /\ users[i].id = req'.header[2].id
                       /\ resp'.data = [id |-> users[i].id, name |-> users[i].name,
                                        email |-> users[i].email,
                                        role |-> users[i].role]]_vars

C33_Witness ==
  /\ req.op = "updateProfile"
  /\ resp.status = 200
  /\ req.body.name # Absent
  /\ req.body.email = Absent
  /\ \E i \in 1..Len(users) :
       /\ users[i].id = req.header[2].id
       /\ users[i].name = req.body.name
       /\ Len(users[i].refreshTokens) = 2
       /\ \A tok \in TokensOf(users[i]) :
            RefreshRoute(users, [refreshToken |-> tok], now).status = 200

\* C34: removing a token a collection does not hold leaves the collection
\* as it is, removing a token twice gives what removing it once gives, and a
\* Logout that passes the gate and presents an already logged-out token is
\* answered 401 and changes no state.
C34_RemovalIdempotent ==
  [][/\ \A i \in 1..Len(users) : \A tok \in BodyTokens \ {NoToken} :
          /\ tok \notin TokensOf(users[i])
               => removeRefreshToken(users[i], tok) = users[i]
          /\ removeRefreshToken(removeRefreshToken(users[i], tok), tok)
               = removeRefreshToken(users[i], tok)
     /\ (/\ Handles("logout")
         /\ ~GateRefuses(req')
         /\ req'.body.refreshToken \in revoked)
          => resp'.status = 401 /\ users' = users]_vars

(* ------------------------------ pagination ----------------------------- *)
\* The pagination helpers on lists of their own.  Page and limit are
\* integers here; an item is a user record with its createdAt.
MaxItems == 5

\* validatePaginationParams
validatePaginationParams(page, limit) ==
  LET error ==
        (IF page < 1
         THEN <<"Page must be a positive integer greater than 0.">> ELSE << >>)
        \o (IF limit < 1
            THEN <<"Limit must be a positive integer greater than 0.">> ELSE << >>)
        \o (IF limit > 100 THEN <<"Limit cannot exceed 100.">> ELSE << >>)
  IN [isValid |-> error = << >>, errors |-> error]

\* calculatePaginationMetadata
calculatePaginationMetadata(totalItems, page, limit) ==
  [totalItems |-> totalItems,
   totalPages |-> CeilDiv(totalItems, limit),
   currentPage |-> page,
   pageSize |-> limit,
   startIndex |-> (page - 1) * limit,
   endIndex |-> Min((page - 1) * limit + limit - 1, totalItems - 1)]

\* items without the one at position k
RemoveAt(items, k) ==
  [j \in 1..(Len(items) - 1) |-> IF j < k THEN items[j] ELSE items[j + 1]]

\* sortArray(items, "createdAt", "desc"): a stable sort, newest first
RECURSIVE sortArray(_)
sortArray(items) ==
  IF items = << >> THEN << >>
  ELSE LET k == CHOOSE i \in 1..Len(items) :
                  /\ \A j \in 1..Len(items) : items[j].createdAt <= items[i].createdAt
                  /\ \A j \in 1..(i - 1) : items[j].createdAt < items[i].createdAt
       IN <<items[k]>> \o sortArray(RemoveAt(items, k))

\* paginate(items, { page, limit }): throws on parameters the validation
\* refuses, otherwise sorts, slices and describes
paginate(items, page, limit) ==
  LET validation == validatePaginationParams(page, limit)
  IN IF ~validation.isValid
     THEN [threw |-> TRUE, errors |-> validation.errors]
     ELSE [threw |-> FALSE,
           data |-> paginateArray(sortArray(items), page, limit),
           metadata |-> calculatePaginationMetadata(Len(items), page, limit)]

\* the lists paginated: n items created in rising, falling or mixed order
PageItem(k, created) ==
  [id |-> k, name |-> NameAnn, email |-> EmailA, role |-> "User",
   password |-> bcryptHash(PwStrong, "s1"), refreshTokens |-> << >>,
   createdAt |-> created]

ItemLists ==
  UNION {{[k \in 1..n |-> PageItem(k, k)],
          [k \in 1..n |-> PageItem(k, n + 1 - k)],
          [k \in 1..n |-> PageItem(k, (3 * k) % 7)]} : n \in 0..MaxItems}

Pages == {0, 1, 2, 3, 6}
Limits == {0, 1, 2, 3, 10, 100, 101}

Paginate ==
  /\ req = Idle
  /\ \E items \in ItemLists, page \in Pages, limit \in Limits :
       /\ req' = [op |-> "paginate", items |-> items, page |-> page, limit |-> limit]
       /\ resp' = paginate(items, page, limit)
  /\ UNCHANGED <<users, now, held, revoked, pending, hits, served>>

\* GET /all past the gate, on a store holding the items
ListUsers ==
  /\ req = Idle
  /\ \E items \in ItemLists, page \in Pages, limit \in Limits :
       /\ req' = [op |-> "listUsers", items |-> items, page |-> page, limit |-> limit]
       /\ resp' = getAllUsers(sortArray(items), [page |-> <<page>>, limit |-> <<limit>>])
  /\ UNCHANGED <<users, now, held, revoked, pending, hits, served>>

PageDone ==
  /\ req # Idle
  /\ req' = Idle
  /\ resp' = NoResponse
  /\ UNCHANGED <<users, now, held, revoked, pending, hits, served>>

NextPage ==
  \/ Paginate
  \/ ListUsers
  \/ PageDone

SpecPage == Init /\ [][NextPage]_vars

\* the item of a list that has exactly n newer items
ItemOfRank(items, n) ==
  CHOOSE x \in {items[k] : k \in 1..Len(items)} :
    Cardinality({k \in 1..Len(items) : items[k].createdAt > x.createdAt}) = n

RECURSIVE PagesJoined(_, _, _)
PagesJoined(items, limit, upTo) ==
  IF upTo = 0 THEN << >>
  ELSE PagesJoined(items, limit, upTo - 1) \o paginate(items, upTo, limit).data

\* C35: for page >= 1 and 1 <= limit <= 100, paginate returns the items at
\* positions (page-1)*limit .. page*limit-1 of the sorted list (at most limit
\* items, fewer on the last page, none beyond it), with totalItems the
\* length of the list and totalPages = ceil(totalItems / limit), so that
\* pages 1..totalPages hold every item exactly once; page < 1, limit < 1 and
\* limit > 100 make paginate throw and the list endpoint answer 400.
C35_Pagination ==
  LET valid == req.page >= 1 /\ req.limit >= 1 /\ req.limit <= 100
      first == (req.page - 1) * req.limit
      n == Len(req.items)
  IN /\ req.op = "paginate"
          => IF ~valid THEN resp.threw
             ELSE /\ ~resp.threw
                  /\ Len(resp.data) =
                       (IF first >= n THEN 0
                        ELSE IF first + req.limit <= n THEN req.limit
                        ELSE n - first)
                  /\ \A k \in 1..Len(resp.data) :
                       resp.data[k] = ItemOfRank(req.items, first + k - 1)
                  /\ resp.metadata.totalItems = n
                  /\ resp.metadata.totalPages * req.limit >= n
                  /\ (resp.metadata.totalPages - 1) * req.limit < n
                  /\ resp.metadata.totalPages >= 0
                  /\ LET all == PagesJoined(req.items, req.limit,
                                            resp.metadata.totalPages)
                     IN /\ Len(all) = n
                        /\ \A k \in 1..n :
                             Cardinality({j \in 1..n : all[j] = req.items[k]}) = 1
     /\ (req.op = "listUsers" /\ n > 0)
          => IF ~valid THEN resp.status = 400
             ELSE /\ resp.status = 200
                  /\ Len(resp.data.users) = Len(paginate(req.items, req.page, req.limit).data)
                  /\ \A k \in 1..Len(resp.data.users) :
                       resp.data.users[k].id = ItemOfRank(req.items, first + k - 1).id
                  /\ resp.data.pagination.totalItems = n
                  /\ resp.data.pagination.totalPages
                       = paginate(req.items, req.page, req.limit).metadata.totalPages

C35_Witness ==
  /\ req.op = "paginate"
  /\ Len(req.items) = MaxItems
  /\ req.limit = 2
  /\ req.page = 3
  /\ ~resp.threw
  /\ Len(resp.data) = 1
  /\ req.items[1].createdAt = 3
  /\ resp.metadata.totalPages = 3

\* C36: the user a Logout changes is the one the refresh token of the body
\* names, whoever the bearer access token names: every Logout that passes
\* the gate and presents a registered, unexpired refresh token is answered
\* 200 and removes the token from its owner's collection only, also when
\* the owner is another user than the caller.
C36_LogoutActsOnTokenOwner ==
  [][(/\ Handles("logout")
      /\ ~GateRefuses(req')
      /\ RefreshAcceptable(req'.body.refreshToken))
     => /\ resp'.status = 200
        /\ \E i \in 1..Len(users) :
             /\ users[i].id = req'.body.refreshToken.id
             /\ req'.body.refreshToken \notin TokensOf(users'[i])
             /\ \A j \in 1..Len(users) : j # i => users'[j] = users[j]]_vars

C36_Witness ==
  /\ req.op = "logout"
  /\ resp.status = 200
  /\ req.header[2].id # req.body.refreshToken.id
  /\ \E i \in 1..Len(users) :
       /\ users[i].id = req.header[2].id
       /\ Len(users[i].refreshTokens) > 0
  /\ \E i \in 1..Len(users) :
       /\ users[i].id = req.body.refreshToken.id
       /\ users[i].refreshTokens = << >>

\* a refresh token that is a member of a collection and has expired
ExpiredMember(tok) ==
  /\ tok # NoToken
  /\ tok.exp <= now
  /\ \E i \in 1..Len(users) : tok \in TokensOf(users[i])

\* C37: an expired refresh token that is a member of a collection stays a
\* member: a Refresh presenting it is answered 401, a Logout presenting it
\* is refused (401 by the handler once the gate has let it through) without
\* any change to the store, no other step removes it, and a collection is
\* never shorter than the number of expired tokens it held.
C37_ExpiredNeverPruned ==
  [][/\ \A i \in 1..Len(users) :
          /\ \A tok \in TokensOf(users[i]) :
               tok.exp <= now => tok \in TokensOf(users'[i])
          /\ Len(users'[i].refreshTokens)
               >= Cardinality({k \in 1..Len(users[i].refreshTokens) :
                                 users[i].refreshTokens[k].exp <= now})
     /\ (Handles("refresh") /\ ExpiredMember(req'.body.refreshToken))
          => resp'.status = 401 /\ users' = users
     /\ (Handles("logout") /\ ExpiredMember(req'.body.refreshToken))
          => /\ users' = users
             /\ revoked' = revoked
             /\ resp'.status \in {401, 403}
             /\ ~GateRefuses(req') => resp'.status = 401]_vars

C37_Witness ==
  /\ req.op = "logout"
  /\ resp.status = 401
  /\ ~GateRefuses(req)
  /\ ExpiredMember(req.body.refreshToken)

\* C38: a Register that supplies a role stores exactly that role, whoever
\* sends it, and the access token it returns carries the role: after a
\* Register with role "Admin" the returned access token passes the gate of
\* the list-users and get-user-by-id routes.
C38_RegisterStoresSuppliedRole ==
  [][(Handles("register") /\ resp'.status = 201 /\ req'.body.role # "")
     => /\ users'[Len(users')].role = req'.body.role
        /\ resp'.data.user.role = req'.body.role
        /\ resp'.data.accessToken.role = req'.body.role
        /\ req'.body.role = "Admin"
             => /\ \A sorted \in SortedOrders(users') :
                     GetAllUsersRoute(sorted, <<"Bearer", resp'.data.accessToken>>,
                                      [page |-> << >>, limit |-> << >>],
                                      now').status = 200
                /\ GetUserByIdRoute(users', <<"Bearer", resp'.data.accessToken>>,
                                    resp'.data.user.id, now').status = 200]_vars

C38_Witness ==
  /\ req.op = "register"
  /\ resp.status = 201
  /\ req.body.role = "Admin"
  /\ resp.data.accessToken.role = "Admin"
  /\ users[Len(users)].role = "Admin"
  /\ GetUserByIdRoute(users, <<"Bearer", resp.data.accessToken>>, 1, now).status = 200

\* C39: a Login answered 401, a Refresh answered 400 or 401 and a Logout
\* answered 400 or 401 leave every stored user exactly as before and carry
\* no token in their response.
C39_RejectedSessionRequestsNoEffect ==
  [][(\/ Handles("login") /\ resp'.status = 401
      \/ Handles("refresh") /\ resp'.status \in {400, 401}
      \/ Handles("logout") /\ resp'.status \in {400, 401})
     => /\ users' = users
        /\ revoked' = revoked
        /\ DOMAIN resp'.data \cap {"accessToken", "refreshToken"} = {}
        /\ \A tok \in BodyTokens \ {NoToken} :
             RefreshRoute(users', [refreshToken |-> tok], now')
               = RefreshRoute(users, [refreshToken |-> tok], now)]_vars

C39_Witness ==
  /\ req.op = "login"
  /\ resp.status = 401
  /\ Len(users) = 2
  /\ \E i \in 1..Len(users) :
       /\ SameIgnoringCase(users[i].email, req.body.email)
       /\ ~comparePassword(req.body.password, users[i].password)
       /\ Len(users[i].refreshTokens) = 2

====
